---- MODULE Spec2Model ----
(***************************************************************************)
(* Model of ndsb (src/ndsb/__init__.py).                                   *)
(*                                                                         *)
(* Part 1, the locked append file: Data.freeze appends one record to a     *)
(* pickle file under portalocker.Lock, thaw drains the file.  Several      *)
(* processes share one file name.  The file system is modelled with        *)
(* inodes: a name refers to an inode, an open handle keeps referring to    *)
(* the inode it opened, the advisory lock (flock) is taken on the inode of *)
(* the open handle, and os.remove unlinks whatever the name refers to at   *)
(* that moment.                                                            *)
(*                                                                         *)
(* A file's contents are a sequence of tokens.  pickle.dump of a list is   *)
(* MARK, the records, STOP.  The 40 bytes thaw writes are MELT tokens.     *)
(*                                                                         *)
(* Python file objects are buffered: bytes handed to fh.write reach the    *)
(* file when the buffer is flushed (fh.flush, or fh.close).  freeze        *)
(* flushes inside the lock (lines 56-57); thaw does not flush, so its 40   *)
(* bytes are written when the handle is closed on leaving the with block.  *)
(* portalocker.Lock releases by unlocking the handle and then closing it.  *)
(*                                                                         *)
(* Part 2 is one call of artificer, part 3 the access policy, metadata and *)
(* manifest of one Artifact, part 4 Beam.fire on the Beam artificer        *)
(* returned, part 5 the directory creation of Artifact.__init__ by several *)
(* processes.                                                              *)
(***************************************************************************)
EXTENDS Integers, Sequences, FiniteSets, TLC

\* ------------------------------------------------------------------ bounds
NProc == 2          \* processes sharing the file name
MaxCalls == 4       \* freeze and thaw calls started in one behaviour
MaxK == 3           \* longest producer list given to artificer
NObj == 2           \* distinct producer objects
MaxOps == 4         \* calls made on one Artifact
NPaths == 2         \* directory paths under one parent

Procs == 1..NProc
Recs == 1..MaxCalls
Inodes == 1..MaxCalls        \* every inode is created by the open of a freeze
NoFile == 0
Free == 0

\* ------------------------------------------------------------------ tokens
MARK == 0 - 1
STOP == 0 - 2
MELT == 0 - 3

\* line 214: the fixed bytes written over the head of the drained file
Sentinel == <<MELT, MELT, MELT>>

\* capacity of a file object's write buffer (io.DEFAULT_BUFFER_SIZE)
BufSize == 3

VARIABLES
    path,       \* inode the file name refers to, NoFile when the file is absent
    inode,      \* inode -> contents on disk
    nInodes,    \* inodes created so far
    lock,       \* inode -> process holding the exclusive lock, or Free
    pc,         \* process -> position in its current call
    op,         \* process -> "freeze" or "thaw", the call it is running
    fd,         \* process -> inode of its open handle
    rec,        \* process -> the record (self) its freeze appends
    pickles,    \* process -> the local list `pickles`
    buf,        \* process -> bytes written to the handle and not yet flushed
    res,        \* outcome of the call that finished last
    nFreeze,    \* freeze calls started
    nThaw,      \* thaw calls started
    frozenOk,   \* history: records whose freeze returned, in order of return
    thawRes,    \* history: the lists returned by thaw, in order of return
    lockOrder   \* history: records of the freeze calls, in order of lock acquisition

qvars == <<path, inode, nInodes, lock, pc, op, fd, rec, pickles, buf, res,
           nFreeze, nThaw, frozenOk, thawRes, lockOrder>>

\* Part 2, the batch packager: one call of artificer(data, path, meta)
VARIABLES
    data,       \* the producer list: a sequence of producer objects
    hook,       \* producer object -> what its pack method does
    collide,    \* TRUE when <path>/<id> exists before the call
    a_pc,       \* position in artificer
    a_i,        \* the loop index i of line 228
    staging,    \* the staging directory: "absent", "present" or "removed"
    toplevel,   \* TRUE when toplevel.json is written
    adirs,      \* indices whose artifact directory <staging>/<i> was created
    priv,       \* index -> Artifact._private
    wl,         \* index -> Artifact._whitelist
    finalized,  \* indices whose artifact.json is written
    attached,   \* producer object -> index of the artifact in datum.artifact
    archive,    \* the archive file: "none", "partial", "complete" or "removed"
    a_err,      \* the exception artificer raised, "none" when it did not
    packed      \* history: <<producer, index>> of every call of pack, in order

avars == <<data, hook, collide, a_pc, a_i, staging, toplevel, adirs, priv, wl,
           finalized, attached, archive, a_err, packed>>

\* Part 3, the access policy of one Artifact (RestrictAccess, lines 22-33)
\* with its metadata and manifest (lines 81-107)
VARIABLES
    private,    \* RestrictAccess._private
    whitelist,  \* RestrictAccess._whitelist
    json,       \* Artifact.json: key -> value, Absent for a key not in the dict
    manifest,   \* the artifact.json file: NoManifest, or key -> value as json
    merges,     \* history: the dicts given to artifact.json(...), in call order
    p_pc,       \* "off", or "live" when the artifact is constructed
    p_n,        \* calls made on the artifact
    p_last,     \* the method called last
    p_err       \* the exception the last call raised, "none" when it returned

pvars == <<private, whitelist, json, manifest, merges, p_pc, p_n, p_last, p_err>>

\* Part 4, Beam.fire (lines 116-147) on the Beam artificer returned
VARIABLES
    f_pc,       \* position in fire: "idle", "check", "parse", "stamp", "done", "failed"
    debug,      \* the argument debug
    resp,       \* the response of requests.post: [status, body, id]
    f_i,        \* the loop index i of line 144
    stamp,      \* artifact index -> its remote_path, NoStamp when unset
    f_err       \* the exception fire raised, "none" when it did not

bvars == <<f_pc, debug, resp, f_i, stamp, f_err>>

\* Part 5, Artifact(path) called by several processes on paths under one
\* parent directory, possibly the same path: the
\* mkdir(exist_ok=False, parents=True) of lines 89-90 and 223-224
VARIABLES
    d_parent,   \* TRUE when the parent directory exists
    d_dir,      \* path -> TRUE when the directory at the path exists
    d_pre,      \* path -> TRUE when the directory existed before the calls
    d_files,    \* path -> files under the directory: <<writer, name>>, writer 0 = there before
    d_path,     \* process -> the path it constructs its Artifact on
    d_pc,       \* process -> position in Artifact.__init__ and after
    d_err       \* process -> the exception its constructor raised

dvars == <<d_parent, d_dir, d_pre, d_files, d_path, d_pc, d_err>>

\* history: the inode on which a process running thaw stopped after line 214
VARIABLE stopped

ovars == <<pvars, bvars, dvars, stopped>>

vars == <<qvars, avars, ovars>>

\* ----------------------------------------------------------------- helpers
Range(s) == {s[i] : i \in 1..Len(s)}

Min(S) == CHOOSE x \in S : \A y \in S : x <= y

Prefix(s, k) == SubSeq(s, 1, k)

Suffix(s, k) == SubSeq(s, k + 1, Len(s))

RECURSIVE Flatten(_)
Flatten(ss) == IF ss = <<>> THEN <<>> ELSE Head(ss) \o Flatten(Tail(ss))

\* pickle.dump(pickles, fh): the serialized list
Dumps(list) == <<MARK>> \o list \o <<STOP>>

\* changed Load: a file that does not start a pickle loads as the empty list
LoadLenient(c) ==
    IF Len(c) = 0 THEN [ok |-> FALSE, val |-> <<>>, err |-> "EOFError"]
    ELSE IF c[1] # MARK THEN [ok |-> TRUE, val |-> <<>>, err |-> "none"]
    ELSE LET stops == {i \in 2..Len(c) : c[i] \notin Recs}
         IN  IF stops = {} \/ c[Min(stops)] # STOP
             THEN [ok |-> FALSE, val |-> <<>>, err |-> "UnpicklingError"]
             ELSE [ok |-> TRUE, val |-> SubSeq(c, 2, Min(stops) - 1), err |-> "none"]

\* pickle.load(fh) from offset 0: reads one serialized list and stops at its
\* STOP; bytes after it are not looked at.  ok is FALSE when load raises.
Load(c) ==
    IF Len(c) = 0 THEN [ok |-> FALSE, val |-> <<>>, err |-> "EOFError"]
    ELSE IF c[1] # MARK THEN [ok |-> FALSE, val |-> <<>>, err |-> "UnpicklingError"]
    ELSE LET stops == {i \in 2..Len(c) : c[i] \notin Recs}
         IN  IF stops = {} \/ c[Min(stops)] # STOP
             THEN [ok |-> FALSE, val |-> <<>>, err |-> "UnpicklingError"]
             ELSE [ok |-> TRUE, val |-> SubSeq(c, 2, Min(stops) - 1), err |-> "none"]

\* write through a handle opened "ab+": O_APPEND puts the bytes at the end
AppendWrite(c, bytes) == c \o bytes

\* write through a handle opened "rb+" after seek(0): overwrites from offset 0
WriteAt0(c, bytes) == bytes \o Suffix(c, Len(bytes))

\* fh.write(bytes) on a buffered handle: what does not fit the buffer is
\* written through, the tail stays in the buffer
Spill(bytes) == IF Len(bytes) > BufSize THEN Len(bytes) - BufSize ELSE 0

Idle(p) == pc[p] = "idle"

\* the process that makes the next call: processes without a running call
\* are interchangeable, the call is given to the first of them
Caller(p) == Idle(p) /\ \A q \in Procs : Idle(q) => p <= q

\* how a call ended: "ok", or the exception raised and the exception it wraps
Outcome(k, c) == [kind |-> k, cause |-> c]

Objs == 1..NObj
NoArt == 0 - 1

\* what the pack method of a producer does:
\*   "custom"   overrides pack and merges metadata
\*   "private"  overrides pack, calls make_private and grant_access
\*   "raises"   overrides pack and raises
\*   "default"  does not override: Data.pack, lines 59-65
HookKinds == {"custom", "private", "raises", "default"}

\* the producer lists of length 0..MaxK
DataLists == UNION {[1..k -> Objs] : k \in 0..MaxK}

\* the locked append file before any call
QInit ==
    /\ path = NoFile
    /\ inode = [i \in Inodes |-> <<>>]
    /\ nInodes = 0
    /\ lock = [i \in Inodes |-> Free]
    /\ pc = [p \in Procs |-> "idle"]
    /\ op = [p \in Procs |-> "none"]
    /\ fd = [p \in Procs |-> NoFile]
    /\ rec = [p \in Procs |-> 0]
    /\ pickles = [p \in Procs |-> <<>>]
    /\ buf = [p \in Procs |-> <<>>]
    /\ res = Outcome("none", "none")
    /\ nFreeze = 0
    /\ nThaw = 0
    /\ frozenOk = <<>>
    /\ thawRes = <<>>
    /\ lockOrder = <<>>

\* the state of the packager's objects and directories before step 1
AFresh ==
    /\ a_i = 0
    /\ staging = "absent"
    /\ toplevel = FALSE
    /\ adirs = {}
    /\ priv = [i \in 0..(MaxK - 1) |-> FALSE]
    /\ wl = [i \in 0..(MaxK - 1) |-> {}]
    /\ finalized = {}
    /\ attached = [o \in Objs |-> NoArt]
    /\ archive = "none"
    /\ a_err = "none"
    /\ packed = <<>>

\* no artificer call
AOff ==
    /\ data = <<>>
    /\ hook = [o \in Objs |-> "custom"]
    /\ collide = FALSE
    /\ a_pc = "off"
    /\ AFresh

\* artificer is called with a producer list
AInit ==
    /\ data \in DataLists
    /\ hook \in [Objs -> HookKinds]
    /\ collide \in BOOLEAN
    /\ a_pc = "start"
    /\ AFresh

\* identities that can be put on an allow-list
Ids == {"alice", "bob"}

\* a key that is not in a dict
Absent == "absent"

\* the keys of artifact.json: what producers merge, and what finalize sets
MergeKeys == {"name", "public_access"}
Keys == MergeKeys \cup {"access_list"}

\* the artifact.json file that is not written
NoManifest == [k \in Keys |-> "no file"]
MetaVals == {"v1", "v2"}

\* the dicts a producer passes to artifact.json(...)
Dicts == UNION {[ks -> MetaVals] : ks \in SUBSET MergeKeys}

\* json.dump of a bool, and of list(set)
Bool(b) == IF b THEN "true" ELSE "false"
ListOf(S) ==
    CASE S = {} -> "[]"
      [] S = {"alice"} -> "[alice]"
      [] S = {"bob"} -> "[bob]"
      [] OTHER -> "[alice, bob]"

\* no Artifact under consideration
POff ==
    /\ private = FALSE
    /\ whitelist = {}
    /\ json = [k \in Keys |-> Absent]
    /\ manifest = NoManifest
    /\ merges = <<>>
    /\ p_pc = "off"
    /\ p_n = 0
    /\ p_last = "none"
    /\ p_err = "none"

\* lines 23-25, 87-93: a constructed Artifact: public, empty allow-list,
\* empty metadata, no manifest
PInit ==
    /\ private = FALSE
    /\ whitelist = {}
    /\ json = [k \in Keys |-> Absent]
    /\ manifest = NoManifest
    /\ merges = <<>>
    /\ p_pc = "live"
    /\ p_n = 0
    /\ p_last = "__init__"
    /\ p_err = "none"

\* what requests.post can do: return a response, or raise SSLError with or
\* without CERTIFICATE_VERIFY_FAILED in its text, or raise another exception
PostOutcomes == {"response", "ssl_cert", "ssl_other", "ConnectionError"}

\* the responses of the host: a status, a body that is a JSON object with
\* an id, a JSON object without one, or not JSON; and the id it assigns
Statuses == {200, 201, 500}
Bodies == {"json_id", "json_noid", "text"}
RemoteIds == {"b1", "b2"}
Responses == [status : Statuses, body : Bodies, id : RemoteIds]
NoResponse == [status |-> 0, body |-> "none", id |-> "none"]

\* line 145: remote_path is the emit endpoint joined with the id and str(i)
RemotePath(id, i) == <<id, i>>
NoStamp == <<"none", NoArt>>

\* fire not called
BInit ==
    /\ f_pc = "idle"
    /\ debug = FALSE
    /\ resp = NoResponse
    /\ f_i = 0
    /\ stamp = [i \in 0..(MaxK - 1) |-> NoStamp]
    /\ f_err = "none"

\* the files an artifact directory holds, and the contents of a directory
\* that exists before the calls (writer 0)
FileNames == {"artifact.json", "err.txt"}
PreFiles == {<<0, "artifact.json">>}

Paths == 1..NPaths

\* Artifact(path) is about to be called by every process; the parent
\* directory may be missing, and some of the paths may exist already
DInit ==
    /\ d_parent \in BOOLEAN
    /\ d_dir \in [Paths -> BOOLEAN]
    /\ (\E x \in Paths : d_dir[x]) => d_parent
    /\ d_pre = d_dir
    /\ d_files = [x \in Paths |-> IF d_dir[x] THEN PreFiles ELSE {}]
    /\ d_path = [p \in Procs |-> 0]
    /\ d_pc = [p \in Procs |-> "idle"]
    /\ d_err = [p \in Procs |-> "none"]

\* no Artifact being constructed
DOff ==
    /\ d_parent = TRUE
    /\ d_dir = [x \in Paths |-> FALSE]
    /\ d_pre = [x \in Paths |-> FALSE]
    /\ d_files = [x \in Paths |-> {}]
    /\ d_path = [p \in Procs |-> 0]
    /\ d_pc = [p \in Procs |-> "off"]
    /\ d_err = [p \in Procs |-> "none"]

\* the parts that a specification does not exercise
QOff == QInit /\ stopped = NoFile

Init == QOff /\ AOff /\ POff /\ BInit /\ DOff

\* the call of p ends: handle closed, locals gone
Finish(p, outcome) ==
    /\ pc' = [pc EXCEPT ![p] = "idle"]
    /\ op' = [op EXCEPT ![p] = "none"]
    /\ fd' = [fd EXCEPT ![p] = NoFile]
    /\ rec' = [rec EXCEPT ![p] = 0]
    /\ pickles' = [pickles EXCEPT ![p] = <<>>]
    /\ buf' = [buf EXCEPT ![p] = <<>>]
    /\ res' = outcome

\* ------------------------------------------------------- portalocker.Lock
\* line 40: Data.freeze is called; portalocker.Lock opens the file "ab+",
\* which creates it when it is absent
StartFreeze(p) ==
    /\ Caller(p)
    /\ nFreeze + nThaw < MaxCalls
    /\ nFreeze' = nFreeze + 1
    /\ IF path = NoFile
       THEN /\ nInodes' = nInodes + 1
            /\ path' = nInodes + 1
            /\ fd' = [fd EXCEPT ![p] = nInodes + 1]
       ELSE /\ fd' = [fd EXCEPT ![p] = path]
            /\ UNCHANGED <<path, nInodes>>
    /\ pc' = [pc EXCEPT ![p] = "lock"]
    /\ op' = [op EXCEPT ![p] = "freeze"]
    /\ rec' = [rec EXCEPT ![p] = nFreeze + 1]
    /\ UNCHANGED <<inode, lock, pickles, buf, res, nThaw, frozenOk, thawRes,
                   lockOrder>>
    /\ UNCHANGED <<avars, ovars>>

\* line 208: thaw is called; portalocker.Lock opens the file "rb+", which
\* raises FileNotFoundError when it is absent and never creates it
StartThaw(p) ==
    /\ Caller(p)
    /\ nFreeze + nThaw < MaxCalls
    /\ nThaw' = nThaw + 1
    /\ IF path = NoFile
       THEN /\ res' = Outcome("FileNotFoundError", "none")
            /\ UNCHANGED <<pc, op, fd>>
       ELSE /\ fd' = [fd EXCEPT ![p] = path]
            /\ pc' = [pc EXCEPT ![p] = "lock"]
            /\ op' = [op EXCEPT ![p] = "thaw"]
            /\ UNCHANGED res
    /\ UNCHANGED <<path, inode, nInodes, lock, rec, pickles, buf, nFreeze,
                   frozenOk, thawRes, lockOrder>>
    /\ UNCHANGED <<avars, ovars>>

\* changed CanLock: the lock is not exclusive
CanLockShared(p) == TRUE

\* the exclusive non-blocking lock attempt on the open handle
CanLock(p) == lock[fd[p]] = Free

\* lines 40, 208: a lock attempt that succeeds
LockAcquire(p) ==
    /\ pc[p] = "lock"
    /\ CanLock(p)
    /\ lock' = [lock EXCEPT ![fd[p]] = p]
    /\ pc' = [pc EXCEPT ![p] = IF op[p] = "freeze" THEN "f_read" ELSE "t_load"]
    /\ lockOrder' = IF op[p] = "freeze" THEN Append(lockOrder, rec[p]) ELSE lockOrder
    /\ UNCHANGED <<path, inode, nInodes, op, fd, rec, pickles, buf, res,
                   nFreeze, nThaw, frozenOk, thawRes>>
    /\ UNCHANGED <<avars, ovars>>

\* changed LockTimeout: the acquisition has no timeout and keeps waiting
LockWaitForever(p) ==
    /\ pc[p] = "lock"
    /\ ~CanLock(p)
    /\ UNCHANGED vars

\* lines 40, 208: the lock is taken and the timeout elapses: the handle is
\* closed, LockException.  A failed attempt before that changes nothing.
\* Time is not modelled: the timeout may elapse at any moment the lock is
\* found taken.
LockTimeout(p) ==
    /\ pc[p] = "lock"
    /\ ~CanLock(p)
    /\ Finish(p, Outcome("LockException", "none"))
    /\ UNCHANGED <<path, inode, nInodes, lock, nFreeze, nThaw, frozenOk, thawRes,
                   lockOrder>>
    /\ UNCHANGED <<avars, ovars>>

\* ------------------------------------------------------------ Data.freeze
\* changed FreezeRead: a file that does not load is treated as an empty list
FreezeReadOverwrite(p) ==
    /\ pc[p] = "f_read"
    /\ LET c == inode[fd[p]]
       IN  pickles' = [pickles EXCEPT ![p] =
                          IF Load(c).ok THEN Append(Load(c).val, rec[p]) ELSE <<rec[p]>>]
    /\ pc' = [pc EXCEPT ![p] = "f_trunc"]
    /\ UNCHANGED <<path, inode, nInodes, lock, op, fd, rec, buf, res,
                   nFreeze, nThaw, frozenOk, thawRes, lockOrder>>
    /\ UNCHANGED <<avars, ovars>>

\* lines 41-50: read the current list and append self; when the load raises,
\* IOError leaves the with block, which unlocks and closes
FreezeRead(p) ==
    /\ pc[p] = "f_read"
    /\ LET c == inode[fd[p]]
       IN  IF Len(c) = 0
           THEN /\ pickles' = [pickles EXCEPT ![p] = <<rec[p]>>]
                /\ pc' = [pc EXCEPT ![p] = "f_trunc"]
                /\ UNCHANGED <<lock, op, fd, rec, buf, res>>
           ELSE IF Load(c).ok
           THEN /\ pickles' = [pickles EXCEPT ![p] = Append(Load(c).val, rec[p])]
                /\ pc' = [pc EXCEPT ![p] = "f_trunc"]
                /\ UNCHANGED <<lock, op, fd, rec, buf, res>>
           ELSE /\ lock' = [lock EXCEPT ![fd[p]] = Free]
                /\ Finish(p, Outcome("IOError", Load(c).err))
    /\ UNCHANGED <<path, inode, nInodes, nFreeze, nThaw, frozenOk, thawRes, lockOrder>>
    /\ UNCHANGED <<avars, ovars>>

\* changed FreezeTruncate: the file is not truncated before the rewrite
FreezeNoTruncate(p) ==
    /\ pc[p] = "f_trunc"
    /\ pc' = [pc EXCEPT ![p] = "f_dump"]
    /\ UNCHANGED <<path, inode, nInodes, lock, op, fd, rec, pickles, buf, res,
                   nFreeze, nThaw, frozenOk, thawRes, lockOrder>>
    /\ UNCHANGED <<avars, ovars>>

\* lines 52-53: seek(0), truncate()
FreezeTruncate(p) ==
    /\ pc[p] = "f_trunc"
    /\ inode' = [inode EXCEPT ![fd[p]] = <<>>]
    /\ pc' = [pc EXCEPT ![p] = "f_dump"]
    /\ UNCHANGED <<path, nInodes, lock, op, fd, rec, pickles, buf, res,
                   nFreeze, nThaw, frozenOk, thawRes, lockOrder>>
    /\ UNCHANGED <<avars, ovars>>

\* line 54: pickle.dump(pickles, fh)
FreezeDump(p) ==
    /\ pc[p] = "f_dump"
    /\ LET bytes == Dumps(pickles[p])
           k == Spill(bytes)
       IN  /\ inode' = [inode EXCEPT ![fd[p]] = AppendWrite(@, Prefix(bytes, k))]
           /\ buf' = [buf EXCEPT ![p] = Suffix(bytes, k)]
    /\ pc' = [pc EXCEPT ![p] = "f_flush"]
    /\ UNCHANGED <<path, nInodes, lock, op, fd, rec, pickles, res,
                   nFreeze, nThaw, frozenOk, thawRes, lockOrder>>
    /\ UNCHANGED <<avars, ovars>>

\* lines 56-57: fh.flush(), os.fsync
FreezeFlush(p) ==
    /\ pc[p] = "f_flush"
    /\ inode' = [inode EXCEPT ![fd[p]] = AppendWrite(@, buf[p])]
    /\ buf' = [buf EXCEPT ![p] = <<>>]
    /\ pc' = [pc EXCEPT ![p] = "f_exit"]
    /\ UNCHANGED <<path, nInodes, lock, op, fd, rec, pickles, res,
                   nFreeze, nThaw, frozenOk, thawRes, lockOrder>>
    /\ UNCHANGED <<avars, ovars>>

\* line 40, leaving the with block: unlock, close; freeze returns
FreezeExit(p) ==
    /\ pc[p] = "f_exit"
    /\ lock' = [lock EXCEPT ![fd[p]] = Free]
    /\ frozenOk' = Append(frozenOk, rec[p])
    /\ Finish(p, Outcome("ok", "none"))
    /\ UNCHANGED <<path, inode, nInodes, nFreeze, nThaw, thawRes, lockOrder>>
    /\ UNCHANGED <<avars, ovars>>

\* ------------------------------------------------------------------- thaw
\* lines 209-214: load the list, seek(0), write the 40 bytes to the handle;
\* when the load raises, the exception leaves the with block
ThawLoad(p) ==
    /\ pc[p] = "t_load"
    /\ LET l == Load(inode[fd[p]])
       IN  IF l.ok
           THEN /\ pickles' = [pickles EXCEPT ![p] = l.val]
                /\ buf' = [buf EXCEPT ![p] = Sentinel]
                /\ pc' = [pc EXCEPT ![p] = "t_unlock"]
                /\ UNCHANGED <<lock, op, fd, rec, res>>
           ELSE /\ lock' = [lock EXCEPT ![fd[p]] = Free]
                /\ Finish(p, Outcome(l.err, "none"))
    /\ UNCHANGED <<path, inode, nInodes, nFreeze, nThaw, frozenOk, thawRes, lockOrder>>
    /\ UNCHANGED <<avars, ovars>>

\* line 208, leaving the with block, first half: portalocker unlocks the handle
ThawUnlock(p) ==
    /\ pc[p] = "t_unlock"
    /\ lock' = [lock EXCEPT ![fd[p]] = Free]
    /\ pc' = [pc EXCEPT ![p] = "t_close"]
    /\ UNCHANGED <<path, inode, nInodes, op, fd, rec, pickles, buf, res,
                   nFreeze, nThaw, frozenOk, thawRes, lockOrder>>
    /\ UNCHANGED <<avars, ovars>>

\* line 208, leaving the with block, second half: portalocker closes the
\* handle, which flushes the 40 bytes of line 214 to offset 0
ThawClose(p) ==
    /\ pc[p] = "t_close"
    /\ inode' = [inode EXCEPT ![fd[p]] = WriteAt0(@, buf[p])]
    /\ buf' = [buf EXCEPT ![p] = <<>>]
    /\ pc' = [pc EXCEPT ![p] = "t_remove"]
    /\ UNCHANGED <<path, nInodes, lock, op, fd, rec, pickles, res,
                   nFreeze, nThaw, frozenOk, thawRes, lockOrder>>
    /\ UNCHANGED <<avars, ovars>>

\* lines 216-218: after the sleep, os.remove(file) and return pickles;
\* os.remove raises FileNotFoundError when the name is gone
ThawRemove(p) ==
    /\ pc[p] = "t_remove"
    /\ IF path = NoFile
       THEN /\ Finish(p, Outcome("FileNotFoundError", "none"))
            /\ UNCHANGED <<path, thawRes>>
       ELSE /\ path' = NoFile
            /\ thawRes' = Append(thawRes, pickles[p])
            /\ Finish(p, Outcome("ok", "none"))
    /\ UNCHANGED <<inode, nInodes, lock, nFreeze, nThaw, frozenOk, lockOrder>>
    /\ UNCHANGED <<avars, ovars>>

\* a process stops in the middle of a call: the operating system closes its
\* handle, which drops the lock; bytes still in the buffer are never written
Crash(p) ==
    /\ ~Idle(p)
    /\ lock' = [i \in Inodes |-> IF lock[i] = p THEN Free ELSE lock[i]]
    /\ Finish(p, Outcome("stopped", "none"))
    /\ UNCHANGED <<path, inode, nInodes, nFreeze, nThaw, frozenOk, thawRes, lockOrder>>
    /\ UNCHANGED <<avars, ovars>>

\* a process running thaw stops after line 214 and before os.remove of line
\* 217.  Its handle is closed: by the operating system when the process is
\* killed, which drops the bytes still in the buffer, or by the interpreter
\* when the process ends on an exception or exits, which writes them
ThawStop(p) ==
    /\ op[p] = "thaw"
    /\ pc[p] \in {"t_unlock", "t_close", "t_remove"}
    /\ \E flushed \in BOOLEAN :
          inode' = IF flushed
                   THEN [inode EXCEPT ![fd[p]] = WriteAt0(inode[fd[p]], buf[p])]
                   ELSE inode
    /\ lock' = [i \in Inodes |-> IF lock[i] = p THEN Free ELSE lock[i]]
    /\ stopped' = fd[p]
    /\ Finish(p, Outcome("stopped", "none"))
    /\ UNCHANGED <<path, nInodes, nFreeze, nThaw, frozenOk, thawRes, lockOrder>>
    /\ UNCHANGED <<avars, pvars, bvars, dvars>>

\* -------------------------------------------------------------- artificer
\* changed ArtRaise: the exception is recorded and the loop goes on
ArtRaiseSwallowed(e) ==
    /\ a_pc' = IF a_pc \in {"pack", "finalize"} THEN "attach" ELSE "failed"
    /\ a_err' = e

\* the exception artificer raises
ArtRaise(e) ==
    /\ a_pc' = "failed"
    /\ a_err' = e

\* lines 222-224: mint the id, mkdir(exist_ok=False) the staging directory
ArtMkdir ==
    /\ a_pc = "start"
    /\ IF collide
       THEN /\ ArtRaise("FileExistsError")
            /\ UNCHANGED staging
       ELSE /\ staging' = "present"
            /\ a_pc' = "toplevel"
            /\ UNCHANGED a_err
    /\ UNCHANGED <<packed, data, hook, collide, a_i, toplevel, adirs, priv, wl, finalized,
                   attached, archive>>
    /\ UNCHANGED <<qvars, ovars>>

\* lines 225-227: write toplevel.json
ArtToplevel ==
    /\ a_pc = "toplevel"
    /\ toplevel' = TRUE
    /\ a_pc' = "loop"
    /\ UNCHANGED <<packed, data, hook, collide, a_i, staging, adirs, priv, wl, finalized,
                   attached, archive, a_err>>
    /\ UNCHANGED <<qvars, ovars>>

\* changed MoreData: the loop stops one element early
MoreDataOffByOne == a_i + 1 < Len(data)

\* the for loop of line 228 has a next element
MoreData == a_i < Len(data)

\* lines 228-229, 87-93: the next datum, Artifact(p / str(i)) makes its directory
ArtNewArtifact ==
    /\ a_pc = "loop"
    /\ MoreData
    /\ adirs' = adirs \cup {a_i}
    /\ priv' = [priv EXCEPT ![a_i] = FALSE]
    /\ wl' = [wl EXCEPT ![a_i] = {}]
    /\ a_pc' = "pack"
    /\ UNCHANGED <<packed, data, hook, collide, a_i, staging, toplevel, finalized, attached,
                   archive, a_err>>
    /\ UNCHANGED <<qvars, ovars>>

\* line 230: datum.pack(artifact).  Data.pack (lines 59-65) starts with
\* warnings.warn, and the module does not import warnings: NameError
ArtPack ==
    /\ a_pc = "pack"
    /\ packed' = Append(packed, <<data[a_i + 1], a_i>>)
    /\ LET k == hook[data[a_i + 1]]
       IN  CASE k = "custom" ->
                  /\ a_pc' = "finalize"
                  /\ UNCHANGED <<priv, wl, a_err>>
             [] k = "private" ->
                  /\ priv' = [priv EXCEPT ![a_i] = TRUE]
                  /\ wl' = [wl EXCEPT ![a_i] = {"alice"}]
                  /\ a_pc' = "finalize"
                  /\ UNCHANGED a_err
             [] k = "raises" ->
                  /\ ArtRaise("HookError")
                  /\ UNCHANGED <<priv, wl>>
             [] k = "default" ->
                  /\ ArtRaise("NameError")
                  /\ UNCHANGED <<priv, wl>>
    /\ UNCHANGED <<data, hook, collide, a_i, staging, toplevel, adirs, finalized,
                   attached, archive>>
    /\ UNCHANGED <<qvars, ovars>>

\* lines 231, 102-107: artifact.finalize().  Line 105 reads self.whitelist,
\* an attribute no class defines (the set is self._whitelist): AttributeError
ArtFinalize ==
    /\ a_pc = "finalize"
    /\ IF priv[a_i] /\ wl[a_i] # {}
       THEN /\ ArtRaise("AttributeError")
            /\ UNCHANGED finalized
       ELSE /\ finalized' = finalized \cup {a_i}
            /\ a_pc' = "attach"
            /\ UNCHANGED a_err
    /\ UNCHANGED <<packed, data, hook, collide, a_i, staging, toplevel, adirs, priv, wl,
                   attached, archive>>
    /\ UNCHANGED <<qvars, ovars>>

\* line 232: datum.artifact = artifact
ArtAttach ==
    /\ a_pc = "attach"
    /\ attached' = [attached EXCEPT ![data[a_i + 1]] = a_i]
    /\ a_i' = a_i + 1
    /\ a_pc' = "loop"
    /\ UNCHANGED <<packed, data, hook, collide, staging, toplevel, adirs, priv, wl, finalized,
                   archive, a_err>>
    /\ UNCHANGED <<qvars, ovars>>

\* lines 233-234: after the loop, tarfile.open(...) and tar.add(p).  Writing
\* the archive can fail (the environment decides); the exception leaves
\* artificer and may leave a partial archive behind
ArtTar ==
    /\ a_pc = "loop"
    /\ ~MoreData
    /\ \E ok \in BOOLEAN :
         IF ok
         THEN /\ archive' = "complete"
              /\ a_pc' = "rmtree"
              /\ UNCHANGED a_err
         ELSE /\ archive' \in {"none", "partial"}
              /\ ArtRaise("TarError")
    /\ UNCHANGED <<packed, data, hook, collide, a_i, staging, toplevel, adirs, priv, wl,
                   finalized, attached>>
    /\ UNCHANGED <<qvars, ovars>>

\* lines 235-236: shutil.rmtree(p), return the Beam
ArtRmtree ==
    /\ a_pc = "rmtree"
    /\ staging' = "removed"
    /\ a_pc' = "done"
    /\ UNCHANGED <<packed, data, hook, collide, a_i, toplevel, adirs, priv, wl, finalized,
                   attached, archive, a_err>>
    /\ UNCHANGED <<qvars, ovars>>

\* ------------------------------------------------- RestrictAccess, Artifact
\* a method of the artifact is called
PolCall(m) ==
    /\ p_pc = "live"
    /\ p_n < MaxOps
    /\ p_n' = p_n + 1
    /\ p_last' = m
    /\ UNCHANGED p_pc

\* lines 27-28
make_private ==
    /\ PolCall("make_private")
    /\ private' = TRUE
    /\ p_err' = "none"
    /\ UNCHANGED <<whitelist, json, manifest, merges>>
    /\ UNCHANGED <<qvars, avars, bvars, dvars, stopped>>

\* changed grant_access: the check of line 31 is left out
grant_access_unchecked(S) ==
    /\ PolCall("grant_access")
    /\ whitelist' = whitelist \cup S
    /\ p_err' = "none"
    /\ UNCHANGED <<private, json, manifest, merges>>
    /\ UNCHANGED <<qvars, avars, bvars, dvars, stopped>>

\* lines 30-33
grant_access(S) ==
    /\ PolCall("grant_access")
    /\ IF ~private
       THEN /\ p_err' = "RuntimeError"
            /\ UNCHANGED whitelist
       ELSE /\ whitelist' = whitelist \cup S
            /\ p_err' = "none"
    /\ UNCHANGED <<private, json, manifest, merges>>
    /\ UNCHANGED <<qvars, avars, bvars, dvars, stopped>>

\* lines 81-83: artifact.json(d) is dict.update with a copy of d
ArtifactJson_call(d) ==
    /\ PolCall("json")
    /\ json' = [k \in Keys |-> IF k \in DOMAIN d THEN d[k] ELSE json[k]]
    /\ merges' = Append(merges, d)
    /\ p_err' = "none"
    /\ UNCHANGED <<private, whitelist, manifest>>
    /\ UNCHANGED <<qvars, avars, bvars, dvars, stopped>>

\* lines 102-107.  Line 103 sets public_access in the dict; line 105 reads
\* self.whitelist, an attribute no class defines (the set is
\* self._whitelist): AttributeError, raised before the file is opened
finalize ==
    /\ PolCall("finalize")
    /\ json' = [json EXCEPT !["public_access"] = Bool(~private)]
    /\ IF private /\ whitelist # {}
       THEN /\ p_err' = "AttributeError"
            /\ UNCHANGED manifest
       ELSE /\ manifest' = json'
            /\ p_err' = "none"
    /\ UNCHANGED <<private, whitelist, merges>>
    /\ UNCHANGED <<qvars, avars, bvars, dvars, stopped>>

\* ---------------------------------------------------------------- Beam.fire
\* fire raises e
FireRaise(e) ==
    /\ f_pc' = "failed"
    /\ f_err' = e

\* the variables of artificer that fire does not touch
akeep == <<data, hook, collide, a_pc, a_i, staging, toplevel, adirs, priv, wl,
           finalized, attached, a_err, packed>>

\* lines 116-124: fire is called on the Beam artificer returned and posts the
\* archive.  An SSLError with CERTIFICATE_VERIFY_FAILED becomes IntruderAlert;
\* any other SSLError is caught and dropped, and line 126 then reads the
\* unassigned local response: UnboundLocalError; other exceptions propagate
FirePost ==
    /\ a_pc = "done"
    /\ f_pc = "idle"
    /\ \E dbg \in BOOLEAN, o \in PostOutcomes, r \in Responses :
         /\ debug' = dbg
         /\ CASE o = "response" ->
                   /\ resp' = r
                   /\ f_pc' = "check"
                   /\ UNCHANGED f_err
              [] o = "ssl_cert" ->
                   /\ FireRaise("IntruderAlert")
                   /\ UNCHANGED resp
              [] o = "ssl_other" ->
                   /\ FireRaise("UnboundLocalError")
                   /\ UNCHANGED resp
              [] OTHER ->
                   /\ FireRaise(o)
                   /\ UNCHANGED resp
    /\ UNCHANGED <<f_i, stamp, archive>>
    /\ UNCHANGED <<qvars, akeep, pvars, dvars, stopped>>

\* lines 126-130: status 200 removes the archive unless debug, any other
\* status raises BeamError with the status and the body
FireCheck ==
    /\ f_pc = "check"
    /\ IF resp.status = 200
       THEN /\ archive' = IF debug THEN archive ELSE "removed"
            /\ f_pc' = "parse"
            /\ UNCHANGED f_err
       ELSE /\ FireRaise("BeamError rejected")
            /\ UNCHANGED archive
    /\ UNCHANGED <<debug, resp, f_i, stamp>>
    /\ UNCHANGED <<qvars, akeep, pvars, dvars, stopped>>

\* lines 132-140: json.loads(response.text); a body that does not parse
\* raises BeamError with the body
FireParse ==
    /\ f_pc = "parse"
    /\ IF resp.body = "text"
       THEN FireRaise("BeamError malformed")
       ELSE /\ f_pc' = "locate"
            /\ UNCHANGED f_err
    /\ UNCHANGED <<debug, resp, f_i, stamp, archive>>
    /\ UNCHANGED <<qvars, akeep, pvars, dvars, stopped>>

\* lines 142-143: beam_id = json_response["id"]
FireLocate ==
    /\ f_pc = "locate"
    /\ IF resp.body = "json_noid"
       THEN FireRaise("KeyError")
       ELSE /\ f_pc' = "stamp"
            /\ UNCHANGED f_err
    /\ UNCHANGED <<debug, resp, f_i, stamp, archive>>
    /\ UNCHANGED <<qvars, akeep, pvars, dvars, stopped>>

\* lines 144-145: datum.artifact.remote_path = join(endpoint, beam_id, str(i)),
\* set on the artifact the producer refers to
FireStamp ==
    /\ f_pc = "stamp"
    /\ f_i < Len(data)
    /\ stamp' = [stamp EXCEPT ![attached[data[f_i + 1]]] = RemotePath(resp.id, f_i)]
    /\ f_i' = f_i + 1
    /\ UNCHANGED <<f_pc, debug, resp, f_err, archive>>
    /\ UNCHANGED <<qvars, akeep, pvars, dvars, stopped>>

\* line 147: the loop is over, fire returns the parsed response
FireReturn ==
    /\ f_pc = "stamp"
    /\ f_i >= Len(data)
    /\ f_pc' = "done"
    /\ UNCHANGED <<debug, resp, f_i, stamp, f_err, archive>>
    /\ UNCHANGED <<qvars, akeep, pvars, dvars, stopped>>

\* ------------------------------------------------- Artifact.__init__, mkdir
\* the variables the constructor steps leave alone
dkeep == <<qvars, avars, pvars, bvars, stopped>>

\* changed MkdirOnce: exist_ok=True, an existing directory is accepted
MkdirExistOk(p, x) ==
    /\ d_dir' = [d_dir EXCEPT ![x] = TRUE]
    /\ d_pc' = [d_pc EXCEPT ![p] = "made"]
    /\ UNCHANGED d_err

\* os.mkdir of the directory itself with exist_ok=False: the system call
\* creates the directory or fails with FileExistsError, atomically
MkdirOnce(p, x) ==
    IF d_dir[x]
    THEN /\ d_pc' = [d_pc EXCEPT ![p] = "failed"]
         /\ d_err' = [d_err EXCEPT ![p] = "FileExistsError"]
         /\ UNCHANGED d_dir
    ELSE /\ d_dir' = [d_dir EXCEPT ![x] = TRUE]
         /\ d_pc' = [d_pc EXCEPT ![p] = "made"]
         /\ UNCHANGED d_err

\* lines 89-90 (and 223-224): Artifact(x) is called, p.mkdir(exist_ok=False,
\* parents=True), first attempt: a missing parent sends pathlib to create
\* the parents first
ArtifactMkdir(p, x) ==
    /\ d_pc[p] = "idle"
    /\ d_path' = [d_path EXCEPT ![p] = x]
    /\ IF ~d_parent
       THEN /\ d_pc' = [d_pc EXCEPT ![p] = "parents"]
            /\ UNCHANGED <<d_dir, d_err>>
       ELSE MkdirOnce(p, x)
    /\ UNCHANGED <<d_parent, d_pre, d_files>>
    /\ UNCHANGED dkeep

\* pathlib: self.parent.mkdir(parents=True, exist_ok=True)
ArtifactMkParents(p) ==
    /\ d_pc[p] = "parents"
    /\ d_parent' = TRUE
    /\ d_pc' = [d_pc EXCEPT ![p] = "retry"]
    /\ UNCHANGED <<d_dir, d_pre, d_files, d_path, d_err>>
    /\ UNCHANGED dkeep

\* pathlib: self.mkdir(mode, parents=False, exist_ok=exist_ok), the retry
ArtifactMkdirRetry(p) ==
    /\ d_pc[p] = "retry"
    /\ MkdirOnce(p, d_path[p])
    /\ UNCHANGED <<d_parent, d_pre, d_files, d_path>>
    /\ UNCHANGED dkeep

\* lines 64-65, 106-107: the process that constructed the Artifact writes a
\* file under its directory, replacing a file of that name
ArtifactWrite(p, n) ==
    /\ d_pc[p] = "made"
    /\ <<p, n>> \notin d_files[d_path[p]]
    /\ d_files' = [d_files EXCEPT ![d_path[p]] = {f \in @ : f[2] # n} \cup {<<p, n>>}]
    /\ UNCHANGED <<d_parent, d_dir, d_pre, d_path, d_pc, d_err>>
    /\ UNCHANGED dkeep

\* ---------------------------------------------------------- specifications
LockStep(p) == LockAcquire(p) \/ LockTimeout(p)

FreezeStep(p) ==
    \/ StartFreeze(p)
    \/ FreezeRead(p)
    \/ FreezeTruncate(p)
    \/ FreezeDump(p)
    \/ FreezeFlush(p)
    \/ FreezeExit(p)

ThawStep(p) ==
    \/ StartThaw(p)
    \/ ThawLoad(p)
    \/ ThawUnlock(p)
    \/ ThawClose(p)
    \/ ThawRemove(p)

\* freeze and thaw calls of several processes, interleaved
Next == \E p \in Procs : LockStep(p) \/ FreezeStep(p) \/ ThawStep(p)

Spec == Init /\ [][Next]_vars

\* the calls run one after another: a call starts when no other call is running
SeqNext ==
    \E p \in Procs :
        /\ \A q \in Procs \ {p} : Idle(q)
        /\ LockAcquire(p) \/ FreezeStep(p) \/ ThawStep(p)

SeqSpec == Init /\ [][SeqNext]_vars

\* only freeze calls, interleaved
FreezeNext == \E p \in Procs : LockStep(p) \/ FreezeStep(p)

FreezeSpec == Init /\ [][FreezeNext]_vars

\* freeze and thaw calls, interleaved, and processes that stop part-way
CrashNext == Next \/ \E p \in Procs : Crash(p)

CrashSpec == Init /\ [][CrashNext]_vars

\* only freeze calls, interleaved, and processes that stop part-way
FreezeCrashNext == FreezeNext \/ \E p \in Procs : Crash(p)

FreezeCrashSpec == Init /\ [][FreezeCrashNext]_vars

\* freeze and thaw calls, interleaved, and thaw processes that stop between
\* the write of line 214 and the remove of line 217
MeltNext == Next \/ \E p \in Procs : ThawStop(p)

MeltSpec == Init /\ [][MeltNext]_vars

\* one call of artificer
ArtNext ==
    \/ ArtMkdir
    \/ ArtToplevel
    \/ ArtNewArtifact
    \/ ArtPack
    \/ ArtFinalize
    \/ ArtAttach
    \/ ArtTar
    \/ ArtRmtree

ArtInit == QOff /\ AInit /\ POff /\ BInit /\ DOff

ArtSpec == ArtInit /\ [][ArtNext]_vars

\* one call of fire
FireNext ==
    \/ FirePost
    \/ FireCheck
    \/ FireParse
    \/ FireLocate
    \/ FireStamp
    \/ FireReturn

\* one call of artificer, then fire on the Beam it returned
BeamNext == ArtNext \/ FireNext

BeamSpec == ArtInit /\ [][BeamNext]_vars

\* every process constructs an Artifact on a path and populates it
MkdirNext ==
    \E p \in Procs :
        \/ \E x \in Paths : ArtifactMkdir(p, x)
        \/ ArtifactMkParents(p)
        \/ ArtifactMkdirRetry(p)
        \/ \E n \in FileNames : ArtifactWrite(p, n)

MkdirInit == QOff /\ AOff /\ POff /\ BInit /\ DInit

MkdirSpec == MkdirInit /\ [][MkdirNext]_vars

\* calls on one Artifact, in any order
PolNext ==
    \/ make_private
    \/ \E S \in SUBSET Ids : grant_access(S)
    \/ \E d \in Dicts : ArtifactJson_call(d)
    \/ finalize

PolInit == QOff /\ AOff /\ PInit /\ BInit /\ DOff

PolSpec == PolInit /\ [][PolNext]_vars

\* freeze and thaw calls, interleaved; a process waiting for the lock keeps
\* running its acquisition (the retry loop of portalocker.Lock.acquire, which
\* ends when the lock is got or the timeout has elapsed); the process holding
\* the lock need not make progress
FairSpec == Init /\ [][Next]_vars /\ \A p \in Procs : WF_vars(LockStep(p))

\* ------------------------------------------------------------- properties
AllIdle == \A p \in Procs : Idle(p)

\* the file holds exactly one serialized list of records
WellFormed(c) ==
    /\ Len(c) >= 2
    /\ c[1] = MARK
    /\ c[Len(c)] = STOP
    /\ \A i \in 2..(Len(c) - 1) : c[i] \in Recs

\* the file starts with the bytes thaw writes over a drained file
Melted(c) == Len(c) >= Len(Sentinel) /\ Prefix(c, Len(Sentinel)) = Sentinel

\* r is in the list some thaw call returned
Returned(r) == \E i \in 1..Len(thawRes) : r \in Range(thawRes[i])

\* r is in a returned list, or in the list a running thaw has loaded
Drained(r) ==
    \/ Returned(r)
    \/ \E q \in Procs : /\ pc[q] \in {"t_unlock", "t_close", "t_remove"}
                        /\ r \in Range(pickles[q])

\* this step is p stopping part-way
Stops(p) == ~Idle(p) /\ pc'[p] = "idle" /\ res'.kind = "stopped"

\* the bytes stored under the file name
Stored == IF path = NoFile THEN <<>> ELSE inode[path]

\* p is inside the read-truncate-rewrite of freeze
InRMW(p) == pc[p] \in {"f_read", "f_trunc", "f_dump", "f_flush", "f_exit"}

\* C1: when freeze and thaw calls run one after another starting from an
\* absent file, every thaw of an existing file returns a non-empty list, the
\* lists returned so far are, concatenated, exactly the records frozen so
\* far in the order of their freeze calls, and the file is absent when thaw
\* has returned.
C1_DrainReturnsAppends ==
    [][\A p \in Procs :
          (pc[p] = "t_remove" /\ pc'[p] = "idle")
          => /\ res'.kind = "ok"
             /\ Len(thawRes') = Len(thawRes) + 1
             /\ Len(thawRes'[Len(thawRes')]) >= 1
             /\ Flatten(thawRes') = frozenOk
             /\ frozenOk = [i \in 1..Len(frozenOk) |-> i]
             /\ path' = NoFile]_vars

\* C1 witness: a thaw has returned two or more records and the file is gone
C1_Witness ==
    /\ AllIdle
    /\ path = NoFile
    /\ \E i \in 1..Len(thawRes) : Len(thawRes[i]) >= 2

\* C2: with only freeze calls interleaved, no two processes are inside the
\* read-truncate-rewrite on the same file at the same time, and once every
\* started freeze has returned successfully the file holds the serialized
\* list of all their records, each once, in the order the lock was acquired.
C2_LockCoversRMW ==
    /\ \A p, q \in Procs : (p # q /\ InRMW(p) /\ InRMW(q)) => fd[p] # fd[q]
    /\ (AllIdle /\ nFreeze >= 1 /\ Len(frozenOk) = nFreeze)
       => /\ path # NoFile
          /\ inode[path] = Dumps(lockOrder)
          /\ Len(lockOrder) = nFreeze
          /\ Range(lockOrder) = 1..nFreeze

\* C2 witness: three freezes returned, the lock was not taken in call order
C2_Witness ==
    /\ AllIdle
    /\ Len(frozenOk) = 3
    /\ lockOrder # <<1, 2, 3>>
    /\ inode[path] = Dumps(lockOrder)

\* C3: no record is contained in the lists returned by two thaw calls.
C3_AtMostOnce ==
    \A r \in Recs : Cardinality({i \in 1..Len(thawRes) : r \in Range(thawRes[i])}) <= 1

\* C4: when thaw deletes the file, every record whose freeze has returned
\* successfully is in a list returned by a thaw or loaded by a running thaw;
\* and a freeze that reads the file while a thaw that has written the 40
\* bytes to its handle has not yet deleted the file fails with IOError.
C4_NoLostUpdate ==
    [][/\ \A p \in Procs :
            (pc[p] = "t_remove" /\ pc'[p] = "idle" /\ path # NoFile /\ path' = NoFile)
            => \A r \in Range(frozenOk) : Drained(r)'
       /\ \A p \in Procs :
            (/\ pc[p] = "f_read" /\ pc'[p] # "f_read"
             /\ \E q \in Procs : /\ pc[q] \in {"t_unlock", "t_close", "t_remove"}
                                 /\ fd[q] = fd[p])
            => res'.kind = "IOError"]_vars

\* C5: whenever no process holds the lock, the file is absent, empty or
\* holds one well-formed serialized list.
C5_NeverPartial ==
    (path # NoFile /\ lock[path] = Free)
    => (inode[path] = <<>> \/ WellFormed(inode[path]))

\* C6: a freeze or thaw that succeeds after a freeze has stopped part-way
\* omits no record whose freeze had returned: a freeze that returns leaves
\* every such record that no thaw has drained in the file it wrote, and a
\* thaw that returns leaves no such record undrained.
C6_CrashSafe ==
    [][/\ \A p \in Procs :
            (pc[p] = "f_exit" /\ pc'[p] = "idle" /\ res'.kind = "ok")
            => \A r \in Range(frozenOk) :
                   Drained(r) \/ (Load(inode[fd[p]]).ok /\ r \in Range(Load(inode[fd[p]]).val))
       /\ \A p \in Procs :
            (pc[p] = "t_remove" /\ pc'[p] = "idle" /\ res'.kind = "ok")
            => \A r \in Range(frozenOk) : Drained(r)']_vars

\* C7: a freeze that reads a non-empty file that is not a well-formed
\* serialized list ends with IOError carrying the cause, and writes nothing:
\* the bytes of every file, the file name and the records stored stay as
\* they were.
C7_CorruptNotOverwritten ==
    [][\A p \in Procs :
          (/\ pc[p] = "f_read" /\ pc'[p] # "f_read" /\ ~Stops(p)
           /\ inode[fd[p]] # <<>> /\ ~WellFormed(inode[fd[p]]))
          => /\ pc'[p] = "idle"
             /\ res'.kind = "IOError"
             /\ res'.cause \in {"UnpicklingError", "EOFError"}
             /\ inode' = inode
             /\ path' = path
             /\ frozenOk' = frozenOk]_vars

\* C7 witness: a freeze failed with IOError and the file still holds the
\* bytes that are not a serialized list
C7_Witness ==
    /\ res.kind = "IOError"
    /\ path # NoFile
    /\ inode[path] # <<>>
    /\ ~WellFormed(inode[path])

\* C8: thaw goes on to return a list only when the file it loads is a
\* well-formed serialized list; on a file that starts with the 40 bytes its
\* load raises, nothing is returned and the file is not touched; on an
\* absent file it raises FileNotFoundError and the file stays absent.
C8_ThawRejects ==
    [][\A p \in Procs :
          /\ (pc[p] = "t_load" /\ pc'[p] = "t_unlock") => WellFormed(inode[fd[p]])
          /\ (/\ pc[p] = "t_load" /\ pc'[p] # "t_load" /\ ~Stops(p)
              /\ Melted(inode[fd[p]]))
             => /\ pc'[p] = "idle"
                /\ res'.kind = "UnpicklingError"
                /\ thawRes' = thawRes
                /\ inode' = inode
                /\ path' = path
          /\ (Caller(p) /\ nThaw' = nThaw + 1 /\ path = NoFile)
             => /\ pc'[p] = "idle"
                /\ res'.kind = "FileNotFoundError"
                /\ path' = NoFile
                /\ nInodes' = nInodes
                /\ thawRes' = thawRes]_vars

\* C8 witness: a thaw failed on the scrambled file, which is still there
C8_Witness ==
    /\ res.kind = "UnpicklingError"
    /\ path # NoFile
    /\ Melted(inode[path])

\* C9: a freeze or thaw never waits for the lock forever, a call that leaves
\* the wait while the lock is taken fails with LockException, and the steps
\* of a call that ends this way leave the stored bytes as they were.
C9_LockTimeout ==
    /\ \A p \in Procs : (pc[p] = "lock") ~> (pc[p] # "lock")
    /\ [][\A p \in Procs :
             /\ (pc[p] = "lock" /\ ~CanLock(p) /\ pc'[p] # "lock")
                => /\ pc'[p] = "idle"
                   /\ res'.kind = "LockException"
             /\ (pc[p] = "lock" /\ pc'[p] = "idle")
                => /\ Stored' = Stored
                   /\ frozenOk' = frozenOk
             /\ (Idle(p) /\ pc'[p] = "lock")
                => Stored' = Stored]_vars

\* C9 witness: a call has failed with LockException while the lock is held
C9_Witness ==
    /\ res.kind = "LockException"
    /\ \E p, q \in Procs : Idle(p) /\ InRMW(q)

\* C10: in a call of artificer an archive exists only when the artifact of
\* every position has been finalized, the staging directory is removed only
\* when the archive is complete, and when writing the archive failed the
\* staging directory is still there.
C10_ArchiveThenDelete ==
    /\ archive # "none" => finalized = 0..(Len(data) - 1)
    /\ staging = "removed" => archive = "complete"
    /\ a_err = "TarError" => staging = "present"

\* C10 witness: artificer returned for two or more producers
C10_Witness ==
    /\ a_pc = "done"
    /\ Len(data) >= 2
    /\ archive = "complete"
    /\ staging = "removed"

\* the producer at position i (from 0) of the list given to artificer
Producer(i) == data[i + 1]

\* C11: pack is called on the producers in input order, the producer at
\* position i with the artifact of directory i; when the archive is written
\* exactly the directories 0..K-1 exist; and when artificer has returned the
\* artifact attached to the producer at position i is the one of index i.
C11_IndexJoin ==
    /\ \A j \in 1..Len(packed) : packed[j] = <<data[j], j - 1>>
    /\ a_pc \in {"rmtree", "done"} => adirs = 0..(Len(data) - 1)
    /\ a_pc = "done" => \A i \in 0..(Len(data) - 1) : attached[Producer(i)] = i

\* C12: artificer never fails at a producer that does not override pack, and
\* the artifact of such a producer, once the loop has passed it, is finalized.
C12_SoftFailure ==
    /\ ~(a_pc = "failed" /\ staging = "present" /\ a_i < Len(data)
         /\ hook[Producer(a_i)] = "default")
    /\ \A i \in 0..(Len(data) - 1) :
          (hook[Producer(i)] = "default" /\ i < a_i) => i \in finalized

\* artificer has failed in the loop body of position a_i (pack or finalize)
FailedInLoop ==
    /\ a_pc = "failed"
    /\ a_err \in {"HookError", "NameError", "AttributeError"}

\* what C19 says of positions 0..k-1 and of the files, k the failing position
LeftBehind ==
    /\ archive = "none"
    /\ staging = "present"
    /\ finalized = 0..(a_i - 1)
    /\ \A i \in 0..(a_i - 1) : attached[Producer(i)] # NoArt

\* an archive is written only when no pack and no finalize has raised
NoErrorSwallowed ==
    archive # "none" => \A i \in 0..(Len(data) - 1) : hook[Producer(i)] = "custom"

Calls(m) == p_n' = p_n + 1 /\ p_last' = m

\* C13: a non-empty allow-list implies the private flag, and grant_access
\* called on a public object raises RuntimeError and leaves the flag and
\* the allow-list as they were.
C13_AllowListNeedsPrivate ==
    /\ [](whitelist # {} => private)
    /\ [][(Calls("grant_access") /\ ~private)
            => /\ p_err' = "RuntimeError"
               /\ private' = private
               /\ whitelist' = whitelist]_vars

\* C13 witness: after other calls, grant_access was refused on a public object
C13_Witness ==
    /\ p_last = "grant_access"
    /\ p_err = "RuntimeError"
    /\ ~private
    /\ whitelist = {}
    /\ merges # <<>>

\* C14: finalize of a private artifact with the non-empty allow-list S
\* returns and writes public_access false and access_list S.
C14_PrivateManifest ==
    [][(Calls("finalize") /\ private /\ whitelist # {})
         => /\ p_err' = "none"
            /\ manifest' # NoManifest
            /\ manifest'["public_access"] = "false"
            /\ manifest'["access_list"] = ListOf(whitelist)]_vars

\* the value merged last under key k, Absent when no dict had the key
RECURSIVE LastWrite(_, _)
LastWrite(ds, k) ==
    IF ds = <<>> THEN Absent
    ELSE IF k \in DOMAIN ds[Len(ds)] THEN ds[Len(ds)][k]
    ELSE LastWrite(SubSeq(ds, 1, Len(ds) - 1), k)

\* what C15 says of the manifest a finalize call writes
ManifestAsSpecified(m) ==
    /\ m # NoManifest
    /\ m["public_access"] = Bool(~private)
    /\ m["access_list"] # Absent <=> (private /\ whitelist # {})
    /\ \A k \in Keys \ {"public_access", "access_list"} : m[k] = LastWrite(merges, k)

\* C15: every finalize call, after any calls of json, make_private and
\* grant_access, returns and leaves a manifest with public_access the
\* negation of the private flag, access_list exactly when private with a
\* non-empty allow-list, and every other key as merged last.
C15_ManifestFields ==
    [][Calls("finalize") => (p_err' = "none" /\ ManifestAsSpecified(manifest'))]_vars

\* C16: when fire has returned, the archive is removed exactly when debug is
\* false and for every position i the artifact the producer at i refers to
\* carries the remote id and the index i; a 200 response whose body has an
\* id makes fire return; and when fire has failed no artifact is stamped.
C16_StampedAtIndex ==
    /\ f_pc = "done" =>
          /\ archive = "removed" <=> ~debug
          /\ \A i \in 0..(Len(data) - 1) :
                stamp[attached[Producer(i)]] = RemotePath(resp.id, i)
    /\ (f_pc \in {"done", "failed"} /\ resp.status = 200 /\ resp.body = "json_id")
          => f_pc = "done"
    /\ f_pc = "failed" => \A a \in 0..(MaxK - 1) : stamp[a] = NoStamp

\* C17: when fire has ended with an error the archive file exists.
C17_ArchiveKeptOnError ==
    f_pc = "failed" => archive = "complete"

\* the processes whose Artifact(x) returned
Made(x) == {p \in Procs : d_pc[p] = "made" /\ d_path[p] = x}

\* C18: at most one process constructs the Artifact on a path, every file
\* written under the directory comes from that process, a constructor that
\* does not succeed raises FileExistsError, and when the directory existed
\* before the calls no constructor succeeds and its files stay as they were.
C18_MkdirExcludes ==
    /\ \A x \in Paths :
          /\ Cardinality(Made(x)) <= 1
          /\ \A f \in d_files[x] : f[1] # 0 => f[1] \in Made(x)
          /\ d_pre[x] => (Made(x) = {} /\ d_files[x] = PreFiles)
    /\ \A p \in Procs : d_pc[p] = "failed" => d_err[p] = "FileExistsError"

\* C18 witness: on a path that did not exist one process made the directory
\* and filled it, and another process was refused on the same path
C18_Witness ==
    \E p, q \in Procs :
        /\ d_pc[p] = "made"
        /\ d_pc[q] = "failed"
        /\ d_path[p] = d_path[q]
        /\ ~d_pre[d_path[p]]
        /\ {<<p, n>> : n \in FileNames} = d_files[d_path[p]]

\* C20: once a process running thaw has stopped after writing the sentinel
\* and before removing the file, the file stays under its name with the
\* sentinel at its head, no step changes its bytes, and every freeze or thaw
\* that ends on it ends with an error.
C20_StaysScrambled ==
    /\ [](stopped # NoFile => (path = stopped /\ Melted(inode[stopped])))
    /\ [][stopped # NoFile =>
            /\ inode'[stopped] = inode[stopped]
            /\ \A p \in Procs :
                  (~Idle(p) /\ fd[p] = stopped /\ pc'[p] = "idle")
                     => res'.kind \notin {"ok"}]_vars
====
